---- MODULE Spec2Model ----
(***************************************************************************)
(* State-machine model of contracts/TimeLockInheritance.sol.               *)
(*                                                                         *)
(* Every external function of the contract is one action.  A call whose    *)
(* require fails reverts: the contract storage is left as it was and only  *)
(* the observation variable lastCall records the revert reason.            *)
(* Addresses are the integers 1..NumAddresses, address(0) is 0.            *)
(* An euint128 handle is modelled as the record of the plaintext it        *)
(* encrypts, the kind of value and the user the input proof is bound to.   *)
(*                                                                         *)
(* Spec      : the whole contract on a coarse time grid.                   *)
(* StageSpec : one vault on a fine time grid around the stage boundaries,  *)
(*             for the stage calculator.                                   *)
(* FheSpec   : the SDK initialisation latch of frontend/src/utils/fhe.ts,  *)
(*             called from several places of the page at once.             *)
(***************************************************************************)
EXTENDS Integers, FiniteSets, Sequences, TLC

\* ------------------------------------------------------------ bounds ----
NumAddresses == 2
MaxVaults == 2
MaxSlots == 1
MaxYears == 1
StageYears == 5
GenesisTime == 1
NumCallers == 3         \* call sites of initializeFHE running at once
MaxAttempts == 2        \* SDK initialisations the model lets start

\* --------------------------------------------------------- constants ----
UNLOCK_INTERVAL == 31536000
TOTAL_STAGES == 4
ONE_TIME == 0
STAGED == 1

VARIABLES
    now,                \* block.timestamp
    vaultCount,
    vaults,
    beneficiaries,
    creatorVaults,
    beneficiaryVaults,
    allowed,            \* ACL: set of <<handle, principal>>
    balance,            \* address(this).balance
    transferred,        \* value sent by claimInheritance, per vault and receiver
    lastCall            \* the last external call and its outcome

vars == <<now, vaultCount, vaults, beneficiaries, creatorVaults,
          beneficiaryVaults, allowed, balance, transferred, lastCall>>

\* Module state of frontend/src/utils/fhe.ts and the async calls in flight.
VARIABLES
    fheInstance,        \* 0 is null, k the instance made by attempt k
    initPromise,        \* 0 is null, k the promise of attempt k
    attempt,            \* per attempt: where its async body stands, its value
    caller              \* per call site: the state of its await initializeFHE()

fheVars == <<fheInstance, initPromise, attempt, caller>>

storage == <<vaultCount, vaults, beneficiaries, creatorVaults,
             beneficiaryVaults, allowed, balance, transferred>>

\* ------------------------------------------------------- input sets ----
Addresses == 1..NumAddresses
This == 0 - 1                       \* address(this) in the ACL
VaultKeys == 1..MaxVaults
VaultIds == 0..(MaxVaults + 1)      \* ids a caller may pass
SlotKeys == 0..MaxSlots               \* keys of the beneficiaries mapping the model keeps
SlotIndexes == 0..MaxSlots          \* indexes a caller may pass
SlotCounts == 0..MaxSlots
Deposits == {0, 8}                  \* msg.value
Entitlements == {8}                 \* plaintext amounts a creator encrypts
UnlockModes == {ONE_TIME, STAGED}
FirstUnlockTimes == {GenesisTime, GenesisTime + 1}
\* block timestamps of Spec: genesis, then the first unlock time plus whole intervals
TimePoints == {GenesisTime} \cup { GenesisTime + 1 + k * UNLOCK_INTERVAL : k \in 0..MaxYears }

OK == "ok"

Callers == 1..NumCallers
Attempts == 1..MaxAttempts

\* The page before any call of initializeFHE.
FheIdle ==
    /\ fheInstance = 0
    /\ initPromise = 0
    /\ attempt = [ k \in Attempts |-> [ pc |-> "unstarted", value |-> 0 ] ]
    /\ caller = [ c \in Callers |-> [ pc |-> "idle", on |-> 0, got |-> 0 ] ]

\* ----------------------------------------------------------- records ----
ZeroVault ==
    [ id |-> 0, creator |-> 0, totalAmount |-> 0, firstUnlockTime |-> 0,
      stagesUnlocked |-> 0, emergencyUnlocked |-> FALSE, isActive |-> FALSE,
      beneficiaryCount |-> 0, unlockMode |-> ONE_TIME ]

NoHandle == [ kind |-> "none", user |-> 0, val |-> 0 ]

ZeroBeneficiary ==
    [ encryptedAddress |-> NoHandle, encryptedAmount |-> NoHandle, totalClaimed |-> 0 ]

\* An external encrypted input created by `user` (createEncryptedInput).
ExternalInput(kind, user, val) == [ kind |-> kind, user |-> user, val |-> val ]

\* FHE.fromExternal: the handle of a verified input.
fromExternal(ext) == ext

\* The outcome of a call: revert reason (or OK), returned value, value sent out.
Call(op, err, ret, sent) == [ op |-> op, err |-> err, ret |-> ret, sent |-> sent ]

\* -------------------------------------------------------------- Init ----
Init ==
    /\ now = GenesisTime
    /\ vaultCount = 0
    /\ vaults = [ v \in VaultKeys |-> ZeroVault ]
    /\ beneficiaries = [ v \in VaultKeys |-> [ i \in SlotKeys |-> ZeroBeneficiary ] ]
    /\ creatorVaults = [ a \in Addresses |-> << >> ]
    /\ beneficiaryVaults = [ a \in Addresses |-> << >> ]
    /\ allowed = {}
    /\ balance = 0
    /\ transferred = [ v \in VaultKeys |-> [ a \in Addresses |-> 0 ] ]
    /\ lastCall = Call("deploy", OK, 0, 0)
    /\ FheIdle

\* --------------------------------------------------------- modifiers ----
\* Variant: the upper bound of the id check is off by one.
vaultExists_offByOne(vaultId) ==
    IF ~(vaultId > 0 /\ vaultId <= vaultCount + 1) THEN "Vault does not exist"
    ELSE IF ~vaults[vaultId].isActive THEN "Vault is not active"
    ELSE OK

vaultExists(vaultId) ==
    IF ~(vaultId > 0 /\ vaultId <= vaultCount) THEN "Vault does not exist"
    ELSE IF ~vaults[vaultId].isActive THEN "Vault is not active"
    ELSE OK

\* Variant: the creator check is missing.
onlyCreator_missing(vaultId, sender) == OK

onlyCreator(vaultId, sender) ==
    IF ~(vaults[vaultId].creator = sender) THEN "Not vault creator" ELSE OK

\* ------------------------------------------------------ private views ----
\* Variant: the first stage opens only strictly after firstUnlockTime.
_getCurrentStage_lateStart(vaultId) ==
    LET vault == vaults[vaultId] IN
    IF vault.emergencyUnlocked THEN TOTAL_STAGES
    ELSE IF now <= vault.firstUnlockTime THEN 0
    ELSE IF vault.unlockMode = ONE_TIME THEN TOTAL_STAGES
    ELSE LET timeElapsed == now - vault.firstUnlockTime
             stage == (timeElapsed \div UNLOCK_INTERVAL) + 1
         IN  IF stage > TOTAL_STAGES THEN TOTAL_STAGES ELSE stage

\* Variant: the stage number is the count of whole intervals elapsed (no + 1).
_getCurrentStage_noPlusOne(vaultId) ==
    LET vault == vaults[vaultId] IN
    IF vault.emergencyUnlocked THEN TOTAL_STAGES
    ELSE IF now < vault.firstUnlockTime THEN 0
    ELSE IF vault.unlockMode = ONE_TIME THEN TOTAL_STAGES
    ELSE LET timeElapsed == now - vault.firstUnlockTime
             stage == timeElapsed \div UNLOCK_INTERVAL
         IN  IF stage > TOTAL_STAGES THEN TOTAL_STAGES ELSE stage

\* Variant: the ONE_TIME test precedes the test of firstUnlockTime.
_getCurrentStage_modeBeforeTime(vaultId) ==
    LET vault == vaults[vaultId] IN
    IF vault.emergencyUnlocked THEN TOTAL_STAGES
    ELSE IF vault.unlockMode = ONE_TIME THEN TOTAL_STAGES
    ELSE IF now < vault.firstUnlockTime THEN 0
    ELSE LET timeElapsed == now - vault.firstUnlockTime
             stage == (timeElapsed \div UNLOCK_INTERVAL) + 1
         IN  IF stage > TOTAL_STAGES THEN TOTAL_STAGES ELSE stage

_getCurrentStage(vaultId) ==
    LET vault == vaults[vaultId] IN
    IF vault.emergencyUnlocked THEN TOTAL_STAGES
    ELSE IF now < vault.firstUnlockTime THEN 0
    ELSE IF vault.unlockMode = ONE_TIME THEN TOTAL_STAGES
    ELSE LET timeElapsed == now - vault.firstUnlockTime
             stage == (timeElapsed \div UNLOCK_INTERVAL) + 1
         IN  IF stage > TOTAL_STAGES THEN TOTAL_STAGES ELSE stage

\* Variant: the matcher compares identities but pays the whole entitlement,
\* ignoring the unlocked stage.
_findBeneficiary_noStageScaling(vaultId, beneficiaryAddr) ==
    LET currentStage == _getCurrentStage(vaultId)
        hits == { i \in SlotKeys : /\ i < vaults[vaultId].beneficiaryCount
                                   /\ beneficiaries[vaultId][i].encryptedAddress.kind = "address"
                                   /\ beneficiaries[vaultId][i].encryptedAddress.val = beneficiaryAddr }
    IN
    IF currentStage = 0 \/ hits = {}
    THEN [ found |-> FALSE, index |-> 0, claimable |-> 0 ]
    ELSE LET i == CHOOSE h \in hits : \A g \in hits : h <= g
             ben == beneficiaries[vaultId][i]
         IN  [ found |-> TRUE, index |-> i,
               claimable |-> ben.encryptedAmount.val - ben.totalClaimed ]

\* Variant: the matcher skips the identity comparison and resolves every
\* caller to slot 0.
_findBeneficiary_anyCaller(vaultId, beneficiaryAddr) ==
    LET currentStage == _getCurrentStage(vaultId)
        ben == beneficiaries[vaultId][0]
    IN
    IF currentStage = 0
    THEN [ found |-> FALSE, index |-> 0, claimable |-> 0 ]
    ELSE [ found |-> TRUE, index |-> 0,
           claimable |-> ((ben.encryptedAmount.val * currentStage) \div TOTAL_STAGES)
                         - ben.totalClaimed ]

\* Variant: the matcher compares the caller with the identity written in each
\* slot and pays the stage share not yet claimed.
_findBeneficiary_matchesWritten(vaultId, beneficiaryAddr) ==
    LET currentStage == _getCurrentStage(vaultId)
        hits == { i \in SlotKeys : /\ i < vaults[vaultId].beneficiaryCount
                                   /\ beneficiaries[vaultId][i].encryptedAddress.kind = "address"
                                   /\ beneficiaries[vaultId][i].encryptedAddress.val = beneficiaryAddr }
    IN
    IF currentStage = 0 \/ hits = {}
    THEN [ found |-> FALSE, index |-> 0, claimable |-> 0 ]
    ELSE LET i == CHOOSE h \in hits : \A g \in hits : h <= g
             ben == beneficiaries[vaultId][i]
         IN  [ found |-> TRUE, index |-> i,
               claimable |-> ((ben.encryptedAmount.val * currentStage) \div TOTAL_STAGES)
                             - ben.totalClaimed ]

_findBeneficiaryAndCalculateClaim(vaultId, beneficiaryAddr) ==
    LET currentStage == _getCurrentStage(vaultId) IN
    IF currentStage = 0
    THEN [ found |-> FALSE, index |-> 0, claimable |-> 0 ]
    ELSE [ found |-> FALSE, index |-> 0, claimable |-> 0 ]

\* ----------------------------------------------------------- actions ----
\* Variant: the require on beneficiaryCount is missing.
createVault_noCountCheck(sender, value, firstUnlockTime, unlockMode, beneficiaryCount) ==
    LET err == IF ~(value > 0) THEN "Must deposit ETH"
               ELSE IF ~(firstUnlockTime > now) THEN "Unlock time must be in future"
               ELSE OK
        newId == vaultCount + 1
    IN
    /\ err # OK \/ vaultCount < MaxVaults
    /\ IF err = OK
       THEN /\ vaultCount' = newId
            /\ vaults' = [ vaults EXCEPT ![newId] =
                   [ id |-> newId, creator |-> sender, totalAmount |-> value,
                     firstUnlockTime |-> firstUnlockTime, stagesUnlocked |-> 0,
                     emergencyUnlocked |-> FALSE, isActive |-> TRUE,
                     beneficiaryCount |-> beneficiaryCount, unlockMode |-> unlockMode ] ]
            /\ creatorVaults' = [ creatorVaults EXCEPT ![sender] = Append(@, newId) ]
            /\ balance' = balance + value
            /\ lastCall' = Call("createVault", OK, newId, 0)
            /\ UNCHANGED <<beneficiaries, beneficiaryVaults, allowed, transferred>>
       ELSE /\ lastCall' = Call("createVault", err, 0, 0)
            /\ UNCHANGED storage
    /\ UNCHANGED now

\* Variant: the id field is taken from vaultCount before it is incremented.
createVault_idBeforeIncrement(sender, value, firstUnlockTime, unlockMode, beneficiaryCount) ==
    LET err == IF ~(value > 0) THEN "Must deposit ETH"
               ELSE IF ~(firstUnlockTime > now) THEN "Unlock time must be in future"
               ELSE IF ~(beneficiaryCount > 0) THEN "Must have at least one beneficiary"
               ELSE OK
        newId == vaultCount + 1
    IN
    /\ err # OK \/ vaultCount < MaxVaults
    /\ IF err = OK
       THEN /\ vaultCount' = newId
            /\ vaults' = [ vaults EXCEPT ![newId] =
                   [ id |-> vaultCount, creator |-> sender, totalAmount |-> value,
                     firstUnlockTime |-> firstUnlockTime, stagesUnlocked |-> 0,
                     emergencyUnlocked |-> FALSE, isActive |-> TRUE,
                     beneficiaryCount |-> beneficiaryCount, unlockMode |-> unlockMode ] ]
            /\ creatorVaults' = [ creatorVaults EXCEPT ![sender] = Append(@, newId) ]
            /\ balance' = balance + value
            /\ lastCall' = Call("createVault", OK, newId, 0)
            /\ UNCHANGED <<beneficiaries, beneficiaryVaults, allowed, transferred>>
       ELSE /\ lastCall' = Call("createVault", err, 0, 0)
            /\ UNCHANGED storage
    /\ UNCHANGED now

createVault(sender, value, firstUnlockTime, unlockMode, beneficiaryCount) ==
    LET err == IF ~(value > 0) THEN "Must deposit ETH"
               ELSE IF ~(firstUnlockTime > now) THEN "Unlock time must be in future"
               ELSE IF ~(beneficiaryCount > 0) THEN "Must have at least one beneficiary"
               ELSE OK
        newId == vaultCount + 1
    IN
    /\ err # OK \/ vaultCount < MaxVaults
    /\ IF err = OK
       THEN /\ vaultCount' = newId
            /\ vaults' = [ vaults EXCEPT ![newId] =
                   [ id |-> newId, creator |-> sender, totalAmount |-> value,
                     firstUnlockTime |-> firstUnlockTime, stagesUnlocked |-> 0,
                     emergencyUnlocked |-> FALSE, isActive |-> TRUE,
                     beneficiaryCount |-> beneficiaryCount, unlockMode |-> unlockMode ] ]
            /\ creatorVaults' = [ creatorVaults EXCEPT ![sender] = Append(@, newId) ]
            /\ balance' = balance + value
            /\ lastCall' = Call("createVault", OK, newId, 0)
            /\ UNCHANGED <<beneficiaries, beneficiaryVaults, allowed, transferred>>
       ELSE /\ lastCall' = Call("createVault", err, 0, 0)
            /\ UNCHANGED storage
    /\ UNCHANGED now

\* Variant: the named beneficiary is also allowed to decrypt the amount.
addBeneficiary_grantsBeneficiary(sender, vaultId, beneficiaryIndex, encryptedAddress, encryptedAmount) ==
    LET err == IF vaultExists(vaultId) # OK THEN vaultExists(vaultId)
               ELSE IF onlyCreator(vaultId, sender) # OK THEN onlyCreator(vaultId, sender)
               ELSE IF ~(beneficiaryIndex < vaults[vaultId].beneficiaryCount)
                    THEN "Invalid beneficiary index"
               ELSE IF ~(beneficiaries[vaultId][beneficiaryIndex].totalClaimed = 0)
                    THEN "Beneficiary already added"
               ELSE OK
        encAddr == fromExternal(encryptedAddress)
        encAmount == fromExternal(encryptedAmount)
    IN
    /\ lastCall' = Call("addBeneficiary", err, 0, 0)
    /\ IF err = OK
       THEN /\ beneficiaries' = [ beneficiaries EXCEPT ![vaultId][beneficiaryIndex] =
                   [ encryptedAddress |-> encAddr, encryptedAmount |-> encAmount,
                     totalClaimed |-> 0 ] ]
            /\ allowed' = allowed \cup { <<encAddr, This>>, <<encAmount, This>>,
                                         <<encAddr, sender>>, <<encAmount, sender>>,
                                         <<encAmount, encAddr.val>> }
            /\ UNCHANGED <<vaultCount, vaults, creatorVaults, beneficiaryVaults,
                           balance, transferred>>
       ELSE UNCHANGED storage
    /\ UNCHANGED now

\* Variant: the ACL entries are assigned, not added.
addBeneficiary_replacesGrants(sender, vaultId, beneficiaryIndex, encryptedAddress, encryptedAmount) ==
    LET err == IF vaultExists(vaultId) # OK THEN vaultExists(vaultId)
               ELSE IF onlyCreator(vaultId, sender) # OK THEN onlyCreator(vaultId, sender)
               ELSE IF ~(beneficiaryIndex < vaults[vaultId].beneficiaryCount)
                    THEN "Invalid beneficiary index"
               ELSE IF ~(beneficiaries[vaultId][beneficiaryIndex].totalClaimed = 0)
                    THEN "Beneficiary already added"
               ELSE OK
        encAddr == fromExternal(encryptedAddress)
        encAmount == fromExternal(encryptedAmount)
    IN
    /\ lastCall' = Call("addBeneficiary", err, 0, 0)
    /\ IF err = OK
       THEN /\ beneficiaries' = [ beneficiaries EXCEPT ![vaultId][beneficiaryIndex] =
                   [ encryptedAddress |-> encAddr, encryptedAmount |-> encAmount,
                     totalClaimed |-> 0 ] ]
            /\ allowed' = { <<encAddr, This>>, <<encAmount, This>>,
                                         <<encAddr, sender>>, <<encAmount, sender>> }
            /\ UNCHANGED <<vaultCount, vaults, creatorVaults, beneficiaryVaults,
                           balance, transferred>>
       ELSE UNCHANGED storage
    /\ UNCHANGED now

\* Variant: the require on beneficiaryIndex is missing.
addBeneficiary_noIndexCheck(sender, vaultId, beneficiaryIndex, encryptedAddress, encryptedAmount) ==
    LET err == IF vaultExists(vaultId) # OK THEN vaultExists(vaultId)
               ELSE IF onlyCreator(vaultId, sender) # OK THEN onlyCreator(vaultId, sender)
               ELSE IF ~(beneficiaries[vaultId][beneficiaryIndex].totalClaimed = 0)
                    THEN "Beneficiary already added"
               ELSE OK
        encAddr == fromExternal(encryptedAddress)
        encAmount == fromExternal(encryptedAmount)
    IN
    /\ lastCall' = Call("addBeneficiary", err, 0, 0)
    /\ IF err = OK
       THEN /\ beneficiaries' = [ beneficiaries EXCEPT ![vaultId][beneficiaryIndex] =
                   [ encryptedAddress |-> encAddr, encryptedAmount |-> encAmount,
                     totalClaimed |-> 0 ] ]
            /\ allowed' = allowed \cup { <<encAddr, This>>, <<encAmount, This>>,
                                         <<encAddr, sender>>, <<encAmount, sender>> }
            /\ UNCHANGED <<vaultCount, vaults, creatorVaults, beneficiaryVaults,
                           balance, transferred>>
       ELSE UNCHANGED storage
    /\ UNCHANGED now

addBeneficiary(sender, vaultId, beneficiaryIndex, encryptedAddress, encryptedAmount) ==
    LET err == IF vaultExists(vaultId) # OK THEN vaultExists(vaultId)
               ELSE IF onlyCreator(vaultId, sender) # OK THEN onlyCreator(vaultId, sender)
               ELSE IF ~(beneficiaryIndex < vaults[vaultId].beneficiaryCount)
                    THEN "Invalid beneficiary index"
               ELSE IF ~(beneficiaries[vaultId][beneficiaryIndex].totalClaimed = 0)
                    THEN "Beneficiary already added"
               ELSE OK
        encAddr == fromExternal(encryptedAddress)
        encAmount == fromExternal(encryptedAmount)
    IN
    /\ lastCall' = Call("addBeneficiary", err, 0, 0)
    /\ IF err = OK
       THEN /\ beneficiaries' = [ beneficiaries EXCEPT ![vaultId][beneficiaryIndex] =
                   [ encryptedAddress |-> encAddr, encryptedAmount |-> encAmount,
                     totalClaimed |-> 0 ] ]
            /\ allowed' = allowed \cup { <<encAddr, This>>, <<encAmount, This>>,
                                         <<encAddr, sender>>, <<encAmount, sender>> }
            /\ UNCHANGED <<vaultCount, vaults, creatorVaults, beneficiaryVaults,
                           balance, transferred>>
       ELSE UNCHANGED storage
    /\ UNCHANGED now

\* Variant: the override is a switch; a second call by the creator re-locks.
emergencyUnlock_toggle(sender, vaultId) ==
    LET err == IF vaultExists(vaultId) # OK THEN vaultExists(vaultId)
               ELSE IF onlyCreator(vaultId, sender) # OK THEN onlyCreator(vaultId, sender)
               ELSE OK
    IN
    /\ lastCall' = Call("emergencyUnlock", err, 0, 0)
    /\ IF err = OK
       THEN /\ vaults' = [ vaults EXCEPT
                   ![vaultId].emergencyUnlocked = ~vaults[vaultId].emergencyUnlocked,
                   ![vaultId].stagesUnlocked =
                       IF vaults[vaultId].emergencyUnlocked THEN 0 ELSE TOTAL_STAGES ]
            /\ UNCHANGED <<vaultCount, beneficiaries, creatorVaults, beneficiaryVaults,
                           allowed, balance, transferred>>
       ELSE UNCHANGED storage
    /\ UNCHANGED now

\* Variant: the require on emergencyUnlocked is missing.
emergencyUnlock_noGuard(sender, vaultId) ==
    LET err == IF vaultExists(vaultId) # OK THEN vaultExists(vaultId)
               ELSE IF onlyCreator(vaultId, sender) # OK THEN onlyCreator(vaultId, sender)
               ELSE OK
    IN
    /\ lastCall' = Call("emergencyUnlock", err, 0, 0)
    /\ IF err = OK
       THEN /\ vaults' = [ vaults EXCEPT ![vaultId].emergencyUnlocked = TRUE,
                                         ![vaultId].stagesUnlocked = TOTAL_STAGES ]
            /\ UNCHANGED <<vaultCount, beneficiaries, creatorVaults, beneficiaryVaults,
                           allowed, balance, transferred>>
       ELSE UNCHANGED storage
    /\ UNCHANGED now

\* Variant: the flag is set but stagesUnlocked is not raised.
emergencyUnlock_flagOnly(sender, vaultId) ==
    LET err == IF vaultExists(vaultId) # OK THEN vaultExists(vaultId)
               ELSE IF onlyCreator(vaultId, sender) # OK THEN onlyCreator(vaultId, sender)
               ELSE IF ~(~vaults[vaultId].emergencyUnlocked) THEN "Already emergency unlocked"
               ELSE OK
    IN
    /\ lastCall' = Call("emergencyUnlock", err, 0, 0)
    /\ IF err = OK
       THEN /\ vaults' = [ vaults EXCEPT ![vaultId].emergencyUnlocked = TRUE ]
            /\ UNCHANGED <<vaultCount, beneficiaries, creatorVaults, beneficiaryVaults,
                           allowed, balance, transferred>>
       ELSE UNCHANGED storage
    /\ UNCHANGED now

\* Variant: stagesUnlocked is set one past TOTAL_STAGES.
emergencyUnlock_offByOne(sender, vaultId) ==
    LET err == IF vaultExists(vaultId) # OK THEN vaultExists(vaultId)
               ELSE IF onlyCreator(vaultId, sender) # OK THEN onlyCreator(vaultId, sender)
               ELSE IF ~(~vaults[vaultId].emergencyUnlocked) THEN "Already emergency unlocked"
               ELSE OK
    IN
    /\ lastCall' = Call("emergencyUnlock", err, 0, 0)
    /\ IF err = OK
       THEN /\ vaults' = [ vaults EXCEPT ![vaultId].emergencyUnlocked = TRUE,
                                         ![vaultId].stagesUnlocked = TOTAL_STAGES + 1 ]
            /\ UNCHANGED <<vaultCount, beneficiaries, creatorVaults, beneficiaryVaults,
                           allowed, balance, transferred>>
       ELSE UNCHANGED storage
    /\ UNCHANGED now

\* Variant: the override also closes the vault.
emergencyUnlock_deactivates(sender, vaultId) ==
    LET err == IF vaultExists(vaultId) # OK THEN vaultExists(vaultId)
               ELSE IF onlyCreator(vaultId, sender) # OK THEN onlyCreator(vaultId, sender)
               ELSE IF ~(~vaults[vaultId].emergencyUnlocked) THEN "Already emergency unlocked"
               ELSE OK
    IN
    /\ lastCall' = Call("emergencyUnlock", err, 0, 0)
    /\ IF err = OK
       THEN /\ vaults' = [ vaults EXCEPT ![vaultId].emergencyUnlocked = TRUE,
                                         ![vaultId].stagesUnlocked = TOTAL_STAGES,
                                         ![vaultId].isActive = FALSE ]
            /\ UNCHANGED <<vaultCount, beneficiaries, creatorVaults, beneficiaryVaults,
                           allowed, balance, transferred>>
       ELSE UNCHANGED storage
    /\ UNCHANGED now

\* Variant: the emergency unlock also pays the deposit back to the creator.
emergencyUnlock_refunds(sender, vaultId) ==
    LET err == IF vaultExists(vaultId) # OK THEN vaultExists(vaultId)
               ELSE IF onlyCreator(vaultId, sender) # OK THEN onlyCreator(vaultId, sender)
               ELSE IF vaults[vaultId].emergencyUnlocked THEN "Already emergency unlocked"
               ELSE OK
    IN
    /\ lastCall' = Call("emergencyUnlock", err, 0, 0)
    /\ IF err = OK
       THEN /\ vaults' = [ vaults EXCEPT ![vaultId].emergencyUnlocked = TRUE,
                                         ![vaultId].stagesUnlocked = TOTAL_STAGES ]
            /\ balance' = balance - vaults[vaultId].totalAmount
            /\ UNCHANGED <<vaultCount, beneficiaries, creatorVaults, beneficiaryVaults,
                           allowed, transferred>>
       ELSE UNCHANGED storage
    /\ UNCHANGED now

\* Variant: the emergency unlock writes through the creator's whole vault list
\* instead of the one vault named.
emergencyUnlock_allVaults(sender, vaultId) ==
    LET err == IF vaultExists(vaultId) # OK THEN vaultExists(vaultId)
               ELSE IF onlyCreator(vaultId, sender) # OK THEN onlyCreator(vaultId, sender)
               ELSE IF vaults[vaultId].emergencyUnlocked THEN "Already emergency unlocked"
               ELSE OK
    IN
    /\ lastCall' = Call("emergencyUnlock", err, 0, 0)
    /\ IF err = OK
       THEN /\ vaults' = [ v \in VaultKeys |->
                             IF v <= vaultCount /\ vaults[v].creator = sender
                             THEN [ vaults[v] EXCEPT !.emergencyUnlocked = TRUE,
                                                      !.stagesUnlocked = TOTAL_STAGES ]
                             ELSE vaults[v] ]
            /\ UNCHANGED <<vaultCount, beneficiaries, creatorVaults, beneficiaryVaults,
                           allowed, balance, transferred>>
       ELSE UNCHANGED storage
    /\ UNCHANGED now

emergencyUnlock(sender, vaultId) ==
    LET err == IF vaultExists(vaultId) # OK THEN vaultExists(vaultId)
               ELSE IF onlyCreator(vaultId, sender) # OK THEN onlyCreator(vaultId, sender)
               ELSE IF ~(~vaults[vaultId].emergencyUnlocked) THEN "Already emergency unlocked"
               ELSE OK
    IN
    /\ lastCall' = Call("emergencyUnlock", err, 0, 0)
    /\ IF err = OK
       THEN /\ vaults' = [ vaults EXCEPT ![vaultId].emergencyUnlocked = TRUE,
                                         ![vaultId].stagesUnlocked = TOTAL_STAGES ]
            /\ UNCHANGED <<vaultCount, beneficiaries, creatorVaults, beneficiaryVaults,
                           allowed, balance, transferred>>
       ELSE UNCHANGED storage
    /\ UNCHANGED now

\* Variant: an unmatched caller makes the function return early instead of
\* reverting, so the stage update made before the match is kept.
claimInheritance_returnsOnNoMatch(sender, vaultId, accepts) ==
    LET existsErr == vaultExists(vaultId)
        vault == vaults[vaultId]
        currentStage == _getCurrentStage(vaultId)
        stagesAfter == IF currentStage > vault.stagesUnlocked /\ ~vault.emergencyUnlocked
                       THEN currentStage ELSE vault.stagesUnlocked
        err == IF existsErr # OK THEN existsErr
               ELSE IF ~(currentStage > 0) THEN "No stages unlocked yet"
               ELSE OK
    IN
    /\ IF err = OK
       THEN /\ vaults' = [ vaults EXCEPT ![vaultId].stagesUnlocked = stagesAfter ]
            /\ lastCall' = Call("claimInheritance", OK, 0, 0)
            /\ UNCHANGED <<vaultCount, beneficiaries, creatorVaults, beneficiaryVaults,
                           allowed, balance, transferred>>
       ELSE /\ lastCall' = Call("claimInheritance", err, 0, 0)
            /\ UNCHANGED storage
    /\ UNCHANGED now

\* `accepts`: whether the receiver's fallback accepts the value sent by call{value:}.
claimInheritance(sender, vaultId, accepts) ==
    LET existsErr == vaultExists(vaultId)
        vault == vaults[vaultId]
        currentStage == _getCurrentStage(vaultId)
        stagesAfter == IF currentStage > vault.stagesUnlocked /\ ~vault.emergencyUnlocked
                       THEN currentStage ELSE vault.stagesUnlocked
        m == _findBeneficiaryAndCalculateClaim(vaultId, sender)
        claimedAfter == beneficiaries[vaultId][m.index].totalClaimed + m.claimable
        success == accepts /\ balance >= m.claimable
        err == IF existsErr # OK THEN existsErr
               ELSE IF ~(currentStage > 0) THEN "No stages unlocked yet"
               ELSE IF ~m.found THEN "Not a beneficiary"
               ELSE IF ~(m.claimable > 0) THEN "Nothing to claim"
               ELSE IF ~success THEN "Transfer failed"
               ELSE OK
    IN
    /\ IF err = OK
       THEN /\ vaults' = [ vaults EXCEPT ![vaultId].stagesUnlocked = stagesAfter ]
            /\ beneficiaries' = [ beneficiaries EXCEPT ![vaultId][m.index].totalClaimed = claimedAfter ]
            /\ balance' = balance - m.claimable
            /\ transferred' = [ transferred EXCEPT ![vaultId][sender] = @ + m.claimable ]
            /\ beneficiaryVaults' =
                   IF claimedAfter = m.claimable
                   THEN [ beneficiaryVaults EXCEPT ![sender] = Append(@, vaultId) ]
                   ELSE beneficiaryVaults
            /\ lastCall' = Call("claimInheritance", OK, 0, m.claimable)
            /\ UNCHANGED <<vaultCount, creatorVaults, allowed>>
       ELSE /\ lastCall' = Call("claimInheritance", err, 0, 0)
            /\ UNCHANGED storage
    /\ UNCHANGED now

\* ------------------------------------------------------ view functions ----
\* A view call reads the storage and yields a revert reason or a value.
Outcome(err, ret) == [ err |-> err, ret |-> ret ]

checkInheritance(sender, vaultId) ==
    IF vaultExists(vaultId) # OK THEN Outcome(vaultExists(vaultId), << >>)
    ELSE LET m == _findBeneficiaryAndCalculateClaim(vaultId, sender) IN
         IF ~m.found THEN Outcome(OK, <<FALSE, 0, 0>>)
         ELSE Outcome(OK, <<TRUE, m.claimable, 0>>)

getVault(vaultId) ==
    IF vaultExists(vaultId) # OK THEN Outcome(vaultExists(vaultId), ZeroVault)
    ELSE Outcome(OK, vaults[vaultId])

getCreatorVaults(creator) == creatorVaults[creator]

getBeneficiaryVaults(beneficiary) == beneficiaryVaults[beneficiary]

getEncryptedBeneficiary(sender, vaultId, beneficiaryIndex) ==
    IF vaultExists(vaultId) # OK THEN Outcome(vaultExists(vaultId), << >>)
    ELSE IF onlyCreator(vaultId, sender) # OK THEN Outcome(onlyCreator(vaultId, sender), << >>)
    ELSE IF ~(beneficiaryIndex < vaults[vaultId].beneficiaryCount)
         THEN Outcome("Invalid index", << >>)
    ELSE LET ben == beneficiaries[vaultId][beneficiaryIndex] IN
         Outcome(OK, <<ben.encryptedAddress, ben.encryptedAmount>>)

\* A later block: block.timestamp only grows.
advanceTime(t) ==
    /\ t > now
    /\ now' = t
    /\ UNCHANGED <<storage, lastCall>>

\* -------------------------------------------------------------- Next ----
DoCreateVault ==
    \E sender \in Addresses, value \in Deposits, firstUnlockTime \in FirstUnlockTimes,
       unlockMode \in UnlockModes, beneficiaryCount \in SlotCounts :
        /\ createVault(sender, value, firstUnlockTime, unlockMode, beneficiaryCount)
        /\ UNCHANGED fheVars

DoAddBeneficiary ==
    \E sender \in Addresses, vaultId \in VaultIds, beneficiaryIndex \in SlotIndexes,
       a \in Addresses, e \in Entitlements :
        /\ addBeneficiary(sender, vaultId, beneficiaryIndex,
                          ExternalInput("address", sender, a),
                          ExternalInput("amount", sender, e))
        /\ UNCHANGED fheVars

DoEmergencyUnlock ==
    \E sender \in Addresses, vaultId \in VaultIds :
        /\ emergencyUnlock(sender, vaultId)
        /\ UNCHANGED fheVars

DoClaimInheritance ==
    \E sender \in Addresses, vaultId \in VaultIds, accepts \in BOOLEAN :
        /\ claimInheritance(sender, vaultId, accepts)
        /\ UNCHANGED fheVars

DoAdvanceTime ==
    \E t \in TimePoints : advanceTime(t) /\ UNCHANGED fheVars

Next ==
    \/ DoCreateVault
    \/ DoAddBeneficiary
    \/ DoEmergencyUnlock
    \/ DoClaimInheritance
    \/ DoAdvanceTime

Spec == Init /\ [][Next]_vars

\* ---------------------------------------------------------- StageSpec ----
\* One vault, created at genesis, observed on a fine grid of timestamps
\* around every stage boundary of its schedule.
StageFirstTimes == { GenesisTime + 1, GenesisTime + 2, GenesisTime + UNLOCK_INTERVAL }
StageTimePoints ==
    { f + k * UNLOCK_INTERVAL + r : f \in StageFirstTimes, k \in 0..StageYears, r \in {0 - 1, 0, 1} }

\* The states createVault reaches from Init at the genesis block.
StageInit ==
    \E sender \in Addresses, firstUnlockTime \in StageFirstTimes, unlockMode \in UnlockModes :
        /\ now = GenesisTime
        /\ vaultCount = 1
        /\ vaults = [ v \in VaultKeys |->
               IF v = 1
               THEN [ id |-> 1, creator |-> sender, totalAmount |-> 8,
                      firstUnlockTime |-> firstUnlockTime, stagesUnlocked |-> 0,
                      emergencyUnlocked |-> FALSE, isActive |-> TRUE,
                      beneficiaryCount |-> 1, unlockMode |-> unlockMode ]
               ELSE ZeroVault ]
        /\ beneficiaries = [ v \in VaultKeys |-> [ i \in SlotKeys |-> ZeroBeneficiary ] ]
        /\ creatorVaults = [ a \in Addresses |-> IF a = sender THEN <<1>> ELSE << >> ]
        /\ beneficiaryVaults = [ a \in Addresses |-> << >> ]
        /\ allowed = {}
        /\ balance = 8
        /\ transferred = [ v \in VaultKeys |-> [ a \in Addresses |-> 0 ] ]
        /\ lastCall = Call("createVault", OK, 1, 0)
        /\ FheIdle

DoStageAdvanceTime ==
    \E t \in StageTimePoints : advanceTime(t) /\ UNCHANGED fheVars

StageNext ==
    \/ DoStageAdvanceTime
    \/ DoEmergencyUnlock
    \/ DoClaimInheritance

StageSpec == StageInit /\ [][StageNext]_vars

\* ------------------------------------------------------------ FheSpec ----
\* initializeFHE of frontend/src/utils/fhe.ts.  JavaScript runs one task at a
\* time, so a call runs without interleaving up to its first await; initSDK
\* and createInstance are asynchronous and settle in later tasks.

\* Variant: the check of the pending promise is missing, so a call made while
\* an initialisation is pending starts another one.
initializeFHE_noLatch(c) ==
    /\ caller[c].pc \in { "idle", "resolved", "rejected" }
    /\ IF fheInstance # 0
       THEN /\ caller' = [ caller EXCEPT ![c] =
                             [ pc |-> "resolved", on |-> 0, got |-> fheInstance ] ]
            /\ UNCHANGED <<fheInstance, initPromise, attempt>>
       ELSE /\ \E k \in Attempts : attempt[k].pc = "unstarted"
            /\ LET k == CHOOSE j \in Attempts :
                            /\ attempt[j].pc = "unstarted"
                            /\ \A i \in Attempts : attempt[i].pc = "unstarted" => j <= i
               IN  /\ initPromise' = k
                   /\ attempt' = [ attempt EXCEPT ![k].pc = "awaitInitSDK" ]
                   /\ caller' = [ caller EXCEPT ![c] =
                                    [ pc |-> "waiting", on |-> k, got |-> 0 ] ]
            /\ UNCHANGED fheInstance
    /\ UNCHANGED vars

\* One call of initializeFHE by call site c, up to the promise it returns.
initializeFHE(c) ==
    /\ caller[c].pc \in { "idle", "resolved", "rejected" }
    /\ IF fheInstance # 0
       THEN \* if (fheInstance) return fheInstance;
            /\ caller' = [ caller EXCEPT ![c] =
                             [ pc |-> "resolved", on |-> 0, got |-> fheInstance ] ]
            /\ UNCHANGED <<fheInstance, initPromise, attempt>>
       ELSE IF initPromise # 0
       THEN \* if (initPromise) return initPromise;
            /\ caller' = [ caller EXCEPT ![c] =
                             [ pc |-> "waiting", on |-> initPromise, got |-> 0 ] ]
            /\ UNCHANGED <<fheInstance, initPromise, attempt>>
       ELSE \* initPromise = (async () => { ... await initSDK() ...
            /\ \E k \in Attempts : attempt[k].pc = "unstarted"
            /\ LET k == CHOOSE j \in Attempts :
                            /\ attempt[j].pc = "unstarted"
                            /\ \A i \in Attempts : attempt[i].pc = "unstarted" => j <= i
               IN  /\ initPromise' = k
                   /\ attempt' = [ attempt EXCEPT ![k].pc = "awaitInitSDK" ]
                   /\ caller' = [ caller EXCEPT ![c] =
                                    [ pc |-> "waiting", on |-> k, got |-> 0 ] ]
            /\ UNCHANGED fheInstance
    /\ UNCHANGED vars

\* await initSDK() resolves: the body builds the config and calls
\* createInstance(config).
initSDKResolves(k) ==
    /\ attempt[k].pc = "awaitInitSDK"
    /\ attempt' = [ attempt EXCEPT ![k].pc = "awaitCreateInstance" ]
    /\ UNCHANGED <<fheInstance, initPromise, caller>>
    /\ UNCHANGED vars

\* Variant: the catch block does not reset initPromise.
catchBlock_keepsPromise(k) ==
    /\ attempt' = [ attempt EXCEPT ![k].pc = "rejected" ]
    /\ UNCHANGED <<fheInstance, initPromise, caller>>
    /\ UNCHANGED vars

\* catch (error) { initPromise = null; throw new Error(...) }
catchBlock(k) ==
    /\ initPromise' = 0
    /\ attempt' = [ attempt EXCEPT ![k].pc = "rejected" ]
    /\ UNCHANGED <<fheInstance, caller>>
    /\ UNCHANGED vars

\* await initSDK() rejects.
initSDKRejects(k) ==
    /\ attempt[k].pc = "awaitInitSDK"
    /\ catchBlock(k)

\* fheInstance = await createInstance(config); return fheInstance;
createInstanceResolves(k) ==
    /\ attempt[k].pc = "awaitCreateInstance"
    /\ fheInstance' = k
    /\ attempt' = [ attempt EXCEPT ![k] = [ pc |-> "fulfilled", value |-> k ] ]
    /\ UNCHANGED <<initPromise, caller>>
    /\ UNCHANGED vars

\* Reading window.ethereum throws or await createInstance(config) rejects.
createInstanceRejects(k) ==
    /\ attempt[k].pc = "awaitCreateInstance"
    /\ catchBlock(k)

\* The promise a call site awaits has settled: its await returns or throws.
awaitSettles(c) ==
    /\ caller[c].pc = "waiting"
    /\ attempt[caller[c].on].pc \in { "fulfilled", "rejected" }
    /\ caller' = [ caller EXCEPT ![c] =
                     IF attempt[caller[c].on].pc = "fulfilled"
                     THEN [ pc |-> "resolved", on |-> caller[c].on,
                            got |-> attempt[caller[c].on].value ]
                     ELSE [ pc |-> "rejected", on |-> caller[c].on, got |-> 0 ] ]
    /\ UNCHANGED <<fheInstance, initPromise, attempt>>
    /\ UNCHANGED vars

FheInit == Init

DoInitializeFHE == \E c \in Callers : initializeFHE(c)
DoInitSDKResolves == \E k \in Attempts : initSDKResolves(k)
DoInitSDKRejects == \E k \in Attempts : initSDKRejects(k)
DoCreateInstanceResolves == \E k \in Attempts : createInstanceResolves(k)
DoCreateInstanceRejects == \E k \in Attempts : createInstanceRejects(k)
DoAwaitSettles == \E c \in Callers : awaitSettles(c)

FheNext ==
    \/ DoInitializeFHE
    \/ DoInitSDKResolves
    \/ DoInitSDKRejects
    \/ DoCreateInstanceResolves
    \/ DoCreateInstanceRejects
    \/ DoAwaitSettles

FheSpec == FheInit /\ [][FheNext]_<<vars, fheVars>>

\* The event loop runs the continuation of every await whose promise has
\* settled.
FheFairSpec == FheSpec /\ \A c \in Callers : WF_<<vars, fheVars>>(awaitSettles(c))

\* ============================================================ claims ====

\* C1 (as claimed): once a slot (vaultId, index) holds ciphertexts, every
\* addBeneficiary by the creator on that slot fails with "Beneficiary already
\* added" and leaves the slot's stored identity and entitlement as they were.
C1_SlotWriteOnce ==
    [][ \A sender \in Addresses, vaultId \in VaultKeys, i \in SlotKeys,
           a \in Addresses, e \in Entitlements :
          ( /\ vaultExists(vaultId) = OK
            /\ vaults[vaultId].creator = sender
            /\ beneficiaries[vaultId][i].encryptedAddress # NoHandle
            /\ addBeneficiary(sender, vaultId, i,
                              ExternalInput("address", sender, a),
                              ExternalInput("amount", sender, e)) )
          => /\ lastCall'.err = "Beneficiary already added"
             /\ beneficiaries'[vaultId][i] = beneficiaries[vaultId][i] ]_vars

\* C2 (as claimed): with S > 0 stages unlocked and the claimant's identity
\* written in one slot with entitlement e and claimed amount c, where
\* e*S/TOTAL_STAGES > c, a claim whose transfer is accepted succeeds, sends
\* exactly e*S/TOTAL_STAGES - c and raises the slot's claimed amount by it.
C2_ClaimPaysStageShare ==
    [][ \A sender \in Addresses, vaultId \in VaultKeys, i \in SlotKeys :
          LET S == _getCurrentStage(vaultId)
              ben == beneficiaries[vaultId][i]
              due == ((ben.encryptedAmount.val * S) \div TOTAL_STAGES) - ben.totalClaimed
          IN
          ( /\ vaultExists(vaultId) = OK
            /\ S > 0
            /\ i < vaults[vaultId].beneficiaryCount
            /\ ben.encryptedAddress.kind = "address"
            /\ ben.encryptedAddress.val = sender
            /\ due > 0
            /\ balance >= due
            /\ claimInheritance(sender, vaultId, TRUE) )
          => /\ lastCall'.err = OK
             /\ lastCall'.sent = due
             /\ transferred'[vaultId][sender] = transferred[vaultId][sender] + due
             /\ beneficiaries'[vaultId][i].totalClaimed = ben.totalClaimed + due ]_vars

\* C3: the stored stagesUnlocked of every vault never decreases, whatever
\* call is made (successful or reverted) and however time advances.
C3_StagesNonDecreasing ==
    [][ \A v \in VaultKeys : vaults'[v].stagesUnlocked >= vaults[v].stagesUnlocked ]_vars

\* C3 witness: a vault with stages unlocked has since seen time pass and a
\* further (reverted) claim.
C3_Witness ==
    \E v \in VaultKeys :
        /\ vaults[v].stagesUnlocked = TOTAL_STAGES
        /\ now > GenesisTime
        /\ lastCall.op = "claimInheritance"

\* C4: for a vault v and an identity b written in exactly one slot of v, the
\* value sent to b for v never exceeds entitlement * stagesUnlocked / TOTAL_STAGES.
C4_PaidWithinStageShare ==
    \A v \in VaultKeys, b \in Addresses :
        LET hits == { i \in SlotKeys : /\ beneficiaries[v][i].encryptedAddress.kind = "address"
                                      /\ beneficiaries[v][i].encryptedAddress.val = b }
        IN  Cardinality(hits) = 1 =>
              \A i \in hits :
                transferred[v][b] <=
                  (beneficiaries[v][i].encryptedAmount.val * vaults[v].stagesUnlocked)
                      \div TOTAL_STAGES

\* C4 witness: an identity sits in a slot of a vault whose stage is open by
\* time, and a claim on it has been processed.
C4_Witness ==
    /\ lastCall.op = "claimInheritance"
    /\ lastCall.err = "Not a beneficiary"
    /\ \E v \in VaultKeys, b \in Addresses, i \in SlotKeys :
          /\ beneficiaries[v][i].encryptedAddress.val = b
          /\ ~vaults[v].emergencyUnlocked
          /\ _getCurrentStage(v) > 0

\* C5 (as claimed): a claim on a vault with stagesUnlocked > 0 by an identity
\* written in no slot of the vault fails with "Nothing to claim", sends
\* nothing and changes no accumulator.
C5_StrangerGetsNothingToClaim ==
    [][ \A sender \in Addresses, vaultId \in VaultKeys, accepts \in BOOLEAN :
          ( /\ vaultExists(vaultId) = OK
            /\ vaults[vaultId].stagesUnlocked > 0
            /\ \A i \in SlotKeys : beneficiaries[vaultId][i].encryptedAddress.val # sender
            /\ claimInheritance(sender, vaultId, accepts) )
          => /\ lastCall'.err = "Nothing to claim"
             /\ lastCall'.sent = 0
             /\ transferred' = transferred
             /\ balance' = balance
             /\ beneficiaries' = beneficiaries ]_vars

\* C5 (amended): the same claim fails with "Not a beneficiary", sends nothing
\* and changes no accumulator.
C5_StrangerIsNotABeneficiary ==
    [][ \A sender \in Addresses, vaultId \in VaultKeys, accepts \in BOOLEAN :
          ( /\ vaultExists(vaultId) = OK
            /\ vaults[vaultId].stagesUnlocked > 0
            /\ \A i \in SlotKeys : beneficiaries[vaultId][i].encryptedAddress.val # sender
            /\ claimInheritance(sender, vaultId, accepts) )
          => /\ lastCall'.err = "Not a beneficiary"
             /\ lastCall'.sent = 0
             /\ transferred' = transferred
             /\ balance' = balance
             /\ beneficiaries' = beneficiaries ]_vars

\* C5 witness: a claim was rejected as "Not a beneficiary" on a vault with
\* stages unlocked and a written slot that names someone else only.
C5_Witness ==
    /\ lastCall.op = "claimInheritance"
    /\ lastCall.err = "Not a beneficiary"
    /\ \E v \in VaultKeys, a \in Addresses :
          /\ vaults[v].stagesUnlocked > 0
          /\ beneficiaries[v][0].encryptedAddress # NoHandle
          /\ \A i \in SlotKeys : beneficiaries[v][i].encryptedAddress.val # a
          /\ \A w \in VaultKeys : w # v => vaults[w].stagesUnlocked = 0

\* C6: on a vault that is already emergency-unlocked, emergencyUnlock by the
\* creator fails with "Already emergency unlocked" and changes nothing.
C6_SecondEmergencyUnlockRejected ==
    [][ \A sender \in Addresses, vaultId \in VaultKeys :
          ( /\ vaultExists(vaultId) = OK
            /\ vaults[vaultId].creator = sender
            /\ vaults[vaultId].emergencyUnlocked
            /\ emergencyUnlock(sender, vaultId) )
          => /\ lastCall'.err = "Already emergency unlocked"
             /\ storage' = storage
             /\ now' = now ]_vars

\* C6 witness: a second emergencyUnlock has been rejected.
C6_Witness ==
    /\ lastCall.op = "emergencyUnlock"
    /\ lastCall.err = "Already emergency unlocked"
    /\ \E v \in VaultKeys : vaults[v].emergencyUnlocked

\* C7: a successful emergencyUnlock sets emergencyUnlocked and stagesUnlocked =
\* TOTAL_STAGES, and a vault that is emergency-unlocked keeps both for ever.
C7_EmergencyUnlockIrreversible ==
    [][ \A vaultId \in VaultKeys :
          /\ \A sender \in Addresses :
                ( /\ vaultExists(vaultId) = OK
                  /\ vaults[vaultId].creator = sender
                  /\ ~vaults[vaultId].emergencyUnlocked
                  /\ emergencyUnlock(sender, vaultId) )
                => /\ lastCall'.err = OK
                   /\ vaults'[vaultId].emergencyUnlocked
                   /\ vaults'[vaultId].stagesUnlocked = TOTAL_STAGES
          /\ vaults[vaultId].emergencyUnlocked
                => /\ vaults'[vaultId].emergencyUnlocked
                   /\ vaults'[vaultId].stagesUnlocked = TOTAL_STAGES ]_vars

\* C7 witness: a vault was emergency-unlocked before its firstUnlockTime and
\* another call has been made since.
C7_Witness ==
    \E v \in VaultKeys :
        /\ vaults[v].emergencyUnlocked
        /\ vaults[v].stagesUnlocked = TOTAL_STAGES
        /\ now < vaults[v].firstUnlockTime
        /\ lastCall.op = "claimInheritance"

C10_RecomputePersistsMax ==
    [][ \A sender \in Addresses, vaultId \in VaultKeys, accepts \in BOOLEAN :
          ( /\ vaultExists(vaultId) = OK
            /\ claimInheritance(sender, vaultId, accepts) )
          => vaults'[vaultId].stagesUnlocked =
                IF _getCurrentStage(vaultId) > vaults[vaultId].stagesUnlocked
                THEN _getCurrentStage(vaultId)
                ELSE vaults[vaultId].stagesUnlocked ]_vars

\* C11: in every reachable state the stored stagesUnlocked of every vault is
\* an integer between 0 and TOTAL_STAGES.
C11_StagesWithinRange ==
    \A v \in VaultKeys :
        /\ vaults[v].stagesUnlocked \in Int
        /\ vaults[v].stagesUnlocked >= 0
        /\ vaults[v].stagesUnlocked <= TOTAL_STAGES

\* C11 witness: one vault stands at TOTAL_STAGES after an emergency unlock
\* while another is still at 0.
C11_Witness ==
    /\ vaultCount = 2
    /\ lastCall.op = "emergencyUnlock"
    /\ lastCall.err = OK
    /\ \E v, w \in VaultKeys :
          /\ vaults[v].stagesUnlocked = TOTAL_STAGES
          /\ vaults[w].stagesUnlocked = 0

\* C12: createVault reverts when msg.value is 0, when firstUnlockTime is not
\* strictly after now, or when beneficiaryCount is 0, and then vaultCount, the
\* vault table, creatorVaults and the balance are unchanged.
C12_CreateVaultValidation ==
    [][ lastCall'.op = "createVault" =>
        \A sender \in Addresses, value \in Deposits, firstUnlockTime \in FirstUnlockTimes,
           unlockMode \in UnlockModes, beneficiaryCount \in SlotCounts :
          ( /\ (value = 0 \/ firstUnlockTime <= now \/ beneficiaryCount = 0)
            /\ createVault(sender, value, firstUnlockTime, unlockMode, beneficiaryCount) )
          => /\ lastCall'.err # OK
             /\ lastCall'.err =
                   IF value = 0 THEN "Must deposit ETH"
                   ELSE IF firstUnlockTime <= now THEN "Unlock time must be in future"
                   ELSE "Must have at least one beneficiary"
             /\ vaultCount' = vaultCount
             /\ vaults' = vaults
             /\ creatorVaults' = creatorVaults
             /\ balance' = balance ]_vars

\* C12 witness: with a vault already created, a createVault with
\* beneficiaryCount = 0 has been rejected.
C12_Witness ==
    /\ vaultCount = 1
    /\ balance > 0
    /\ lastCall.op = "createVault"
    /\ lastCall.err = "Must have at least one beneficiary"

\* C13: the k-th successful createVault returns k; the assigned ids are exactly
\* 1..vaultCount and vaults[id].id = id; a new vault has stagesUnlocked = 0,
\* emergencyUnlocked = false, isActive = true and totalAmount = msg.value.
C13_SequentialIds ==
    /\ [] ( \A id \in VaultKeys :
              /\ id <= vaultCount => (vaults[id].id = id /\ vaults[id].isActive)
              /\ id > vaultCount => vaults[id] = ZeroVault )
    /\ [][ lastCall'.op = "createVault" =>
           \A sender \in Addresses, value \in Deposits, firstUnlockTime \in FirstUnlockTimes,
              unlockMode \in UnlockModes, beneficiaryCount \in SlotCounts :
             ( /\ createVault(sender, value, firstUnlockTime, unlockMode, beneficiaryCount)
               /\ lastCall'.err = OK )
             => /\ lastCall'.ret = vaultCount + 1
                /\ vaultCount' = vaultCount + 1
                /\ vaults'[vaultCount'].id = vaultCount'
                /\ vaults'[vaultCount'].stagesUnlocked = 0
                /\ ~vaults'[vaultCount'].emergencyUnlocked
                /\ vaults'[vaultCount'].isActive
                /\ vaults'[vaultCount'].totalAmount = value
                /\ vaults'[vaultCount'].creator = sender ]_vars

\* C13 witness: the second successful createVault has returned 2.
C13_Witness ==
    /\ lastCall.op = "createVault"
    /\ lastCall.err = OK
    /\ lastCall.ret = 2
    /\ vaultCount = 2
    /\ vaults[1].id = 1
    /\ vaults[2].id = 2

\* C14: once a vault is created its id, creator, totalAmount, unlockMode,
\* firstUnlockTime, beneficiaryCount and isActive never change; only
\* stagesUnlocked and emergencyUnlocked are modified, and no vault is deleted.
C14_VaultFrame ==
    [][ /\ vaultCount' >= vaultCount
        /\ \A v \in 1..vaultCount :
              vaults'[v] = [ vaults[v] EXCEPT
                               !.stagesUnlocked = vaults'[v].stagesUnlocked,
                               !.emergencyUnlocked = vaults'[v].emergencyUnlocked ] ]_vars

\* C14 witness: a vault has gone through a slot write, an emergency unlock, a
\* later block and a claim.
C14_Witness ==
    \E v \in 1..vaultCount :
        /\ vaults[v].emergencyUnlocked
        /\ beneficiaries[v][0] # ZeroBeneficiary
        /\ now > GenesisTime
        /\ lastCall.op = "claimInheritance"

\* C15: getVault, addBeneficiary, emergencyUnlock, claimInheritance,
\* checkInheritance and getEncryptedBeneficiary all fail with "Vault does not
\* exist" for vaultId = 0 or vaultId > vaultCount, changing no state; getVault
\* on an assigned id returns the stored vault record.
C15_VaultNotFound ==
    /\ [] ( \A vaultId \in VaultIds, sender \in Addresses, i \in SlotIndexes :
              /\ (vaultId = 0 \/ vaultId > vaultCount) =>
                    /\ getVault(vaultId).err = "Vault does not exist"
                    /\ checkInheritance(sender, vaultId).err = "Vault does not exist"
                    /\ getEncryptedBeneficiary(sender, vaultId, i).err = "Vault does not exist"
              /\ (vaultId > 0 /\ vaultId <= vaultCount) =>
                    /\ getVault(vaultId).err = OK
                    /\ getVault(vaultId).ret = vaults[vaultId]
                    /\ getVault(vaultId).ret.id = vaultId )
    /\ [][ LET unassigned(vaultId) == vaultId = 0 \/ vaultId > vaultCount
               rejected == /\ lastCall'.err = "Vault does not exist"
                           /\ storage' = storage
                           /\ now' = now
           IN
           /\ lastCall'.op = "addBeneficiary" =>
                 \A vaultId \in VaultIds, sender \in Addresses, i \in SlotIndexes,
                    a \in Addresses, e \in Entitlements :
                   ( /\ unassigned(vaultId)
                     /\ addBeneficiary(sender, vaultId, i,
                                       ExternalInput("address", sender, a),
                                       ExternalInput("amount", sender, e)) )
                   => rejected
           /\ lastCall'.op = "emergencyUnlock" =>
                 \A vaultId \in VaultIds, sender \in Addresses :
                   (unassigned(vaultId) /\ emergencyUnlock(sender, vaultId)) => rejected
           /\ lastCall'.op = "claimInheritance" =>
                 \A vaultId \in VaultIds, sender \in Addresses, accepts \in BOOLEAN :
                   (unassigned(vaultId) /\ claimInheritance(sender, vaultId, accepts))
                   => rejected ]_vars

\* C15 witness: with one vault created, a call on an unassigned id has been
\* rejected.
C15_Witness ==
    /\ vaultCount = 1
    /\ lastCall.op \in {"addBeneficiary", "emergencyUnlock", "claimInheritance"}
    /\ lastCall.err = "Vault does not exist"
    /\ getVault(1).err = OK
    /\ getVault(2).err = "Vault does not exist"

\* C16: addBeneficiary and emergencyUnlock by anyone but the creator of an
\* existing vault fail with "Not vault creator", whatever the other arguments,
\* and leave the vault, its slots and the grant table unchanged.
C16_OnlyCreator ==
    [][ LET rejected == /\ lastCall'.err = "Not vault creator"
                        /\ vaults' = vaults
                        /\ beneficiaries' = beneficiaries
                        /\ allowed' = allowed
        IN
        /\ lastCall'.op = "addBeneficiary" =>
              \A vaultId \in VaultKeys, sender \in Addresses, i \in SlotIndexes,
                 a \in Addresses, e \in Entitlements :
                ( /\ vaultId <= vaultCount
                  /\ vaults[vaultId].creator # sender
                  /\ addBeneficiary(sender, vaultId, i,
                                    ExternalInput("address", sender, a),
                                    ExternalInput("amount", sender, e)) )
                => rejected
        /\ lastCall'.op = "emergencyUnlock" =>
              \A vaultId \in VaultKeys, sender \in Addresses :
                ( /\ vaultId <= vaultCount
                  /\ vaults[vaultId].creator # sender
                  /\ emergencyUnlock(sender, vaultId) )
                => rejected ]_vars

\* C16 witness: a call by a non-creator has been rejected.
C16_Witness ==
    /\ lastCall.op \in {"addBeneficiary", "emergencyUnlock"}
    /\ lastCall.err = "Not vault creator"
    /\ vaultCount >= 1

\* C17: every written slot of a vault has an index below the vault's
\* beneficiaryCount; addBeneficiary with beneficiaryIndex >= beneficiaryCount
\* fails with "Invalid beneficiary index" and writes nothing.
C17_SlotIndexBelowCount ==
    /\ [] ( \A v \in VaultKeys, i \in SlotKeys :
              beneficiaries[v][i] # ZeroBeneficiary => i < vaults[v].beneficiaryCount )
    /\ [][ lastCall'.op = "addBeneficiary" =>
           \A vaultId \in VaultKeys, sender \in Addresses, i \in SlotIndexes,
              a \in Addresses, e \in Entitlements :
             ( /\ vaultId <= vaultCount
               /\ vaults[vaultId].creator = sender
               /\ i >= vaults[vaultId].beneficiaryCount
               /\ addBeneficiary(sender, vaultId, i,
                                 ExternalInput("address", sender, a),
                                 ExternalInput("amount", sender, e)) )
             => /\ lastCall'.err = "Invalid beneficiary index"
                /\ beneficiaries' = beneficiaries
                /\ allowed' = allowed ]_vars

\* C17 witness: on a vault with a written slot, a write at an index equal to
\* beneficiaryCount has been rejected.
C17_Witness ==
    /\ lastCall.op = "addBeneficiary"
    /\ lastCall.err = "Invalid beneficiary index"
    /\ \E v \in 1..vaultCount : beneficiaries[v][0] # ZeroBeneficiary

\* C18 (as claimed): after a successful addBeneficiary the principals allowed
\* on each of the slot's two ciphertexts are the vault creator and nobody else.
C18_OnlyCreatorGranted ==
    [][ \A vaultId \in VaultKeys, sender \in Addresses, i \in SlotIndexes,
           a \in Addresses, e \in Entitlements :
          ( /\ addBeneficiary(sender, vaultId, i,
                              ExternalInput("address", sender, a),
                              ExternalInput("amount", sender, e))
            /\ lastCall'.err = OK )
          => \A h \in { beneficiaries'[vaultId][i].encryptedAddress,
                        beneficiaries'[vaultId][i].encryptedAmount } :
                { g[2] : g \in { x \in allowed' : x[1] = h } } = { vaults[vaultId].creator } ]_vars

\* C18 (amended): after a successful addBeneficiary the principals allowed on
\* each of the slot's two ciphertexts are the vault creator and the contract
\* itself (FHE.allowThis) and nobody else; no other account ever holds a grant.
C18_CreatorAndContractGranted ==
    /\ [] ( \A g \in allowed :
              /\ g[2] \in { This, g[1].user }
              /\ \E v \in 1..vaultCount : vaults[v].creator = g[1].user )
    /\ [][ (lastCall'.op = "addBeneficiary" /\ lastCall'.err = OK) =>
           \A vaultId \in VaultKeys, sender \in Addresses, i \in SlotIndexes,
              a \in Addresses, e \in Entitlements :
             ( /\ addBeneficiary(sender, vaultId, i,
                                 ExternalInput("address", sender, a),
                                 ExternalInput("amount", sender, e))
               /\ lastCall'.err = OK )
             => \A h \in { beneficiaries'[vaultId][i].encryptedAddress,
                           beneficiaries'[vaultId][i].encryptedAmount } :
                   { g[2] : g \in { x \in allowed' : x[1] = h } }
                       = { vaults[vaultId].creator, This } ]_vars

\* C18 witness: a creator has just written a slot that names another account
\* as the beneficiary.
C18_Witness ==
    /\ lastCall.op = "addBeneficiary"
    /\ lastCall.err = OK
    /\ \E v \in 1..vaultCount :
          /\ beneficiaries[v][0].encryptedAddress.kind = "address"
          /\ beneficiaries[v][0].encryptedAddress.val # vaults[v].creator
          /\ <<beneficiaries[v][0].encryptedAmount, vaults[v].creator>> \in allowed

\* C19: a grant (ciphertext handle, principal), once made, is there in every
\* later state.
C19_GrantsOnlyGrow ==
    [][ allowed \subseteq allowed' ]_vars

\* C19 witness: a grant on a ciphertext that no slot holds any more is still
\* in the ACL after the slot was written again.
C19_Witness ==
    \E g \in allowed :
        \A v \in VaultKeys, i \in SlotKeys :
            /\ beneficiaries[v][i].encryptedAddress # g[1]
            /\ beneficiaries[v][i].encryptedAmount # g[1]

\* C20: a claim on a vault that is not emergency-unlocked, made at
\* now < firstUnlockTime, fails with "No stages unlocked yet" for every caller
\* and changes nothing; once now >= firstUnlockTime the same claim no longer
\* fails for that reason.
C20_ClaimBeforeUnlockTime ==
    [][ lastCall'.op = "claimInheritance" =>
        \A vaultId \in VaultKeys, sender \in Addresses, accepts \in BOOLEAN :
          /\ ( /\ vaultId <= vaultCount
               /\ ~vaults[vaultId].emergencyUnlocked
               /\ now < vaults[vaultId].firstUnlockTime
               /\ claimInheritance(sender, vaultId, accepts) )
             => /\ lastCall'.err = "No stages unlocked yet"
                /\ lastCall'.sent = 0
                /\ storage' = storage
                /\ now' = now
          /\ ( /\ vaultId <= vaultCount
               /\ now >= vaults[vaultId].firstUnlockTime
               /\ claimInheritance(sender, vaultId, accepts) )
             => lastCall'.err # "No stages unlocked yet" ]_vars

\* C20 witness: a claim made before firstUnlockTime on a vault with a written
\* slot has been rejected as not ready.
C20_Witness ==
    /\ lastCall.op = "claimInheritance"
    /\ lastCall.err = "No stages unlocked yet"
    /\ \E v \in 1..vaultCount :
          /\ ~vaults[v].emergencyUnlocked
          /\ now < vaults[v].firstUnlockTime
          /\ beneficiaries[v][0] # ZeroBeneficiary

SumTotalAmount(n) ==
    LET sum[k \in 0..MaxVaults] ==
            IF k = 0 THEN 0 ELSE vaults[k].totalAmount + sum[k - 1]
    IN  sum[n]

C27_CheckInheritanceMatchesSlots ==
    \A vaultId \in 1..vaultCount, sender \in Addresses :
        LET written == { i \in SlotKeys :
                           /\ i < vaults[vaultId].beneficiaryCount
                           /\ beneficiaries[vaultId][i].encryptedAddress.kind = "address"
                           /\ beneficiaries[vaultId][i].encryptedAddress.val = sender }
            result == checkInheritance(sender, vaultId)
        IN  /\ result.err = OK
            /\ result.ret[1] <=> (written # {})
            /\ written = {} => result.ret = <<FALSE, 0, 0>>

\* C28: addBeneficiary, emergencyUnlock and claimInheritance on vault v leave
\* the record and the slots of every other vault unchanged; createVault leaves
\* every existing vault and slot unchanged (a step that touches no vault and
\* no slot has nothing to show).
C28_OtherVaultsUntouched ==
    [][ LET othersKept(vaultId) ==
                \A w \in VaultKeys :
                    w # vaultId => /\ vaults'[w] = vaults[w]
                                   /\ beneficiaries'[w] = beneficiaries[w]
            touched == vaults' # vaults \/ beneficiaries' # beneficiaries
        IN
        /\ (touched /\ lastCall'.op = "addBeneficiary") =>
              \A vaultId \in VaultIds, sender \in Addresses, i \in SlotIndexes,
                 a \in Addresses, e \in Entitlements :
                addBeneficiary(sender, vaultId, i,
                               ExternalInput("address", sender, a),
                               ExternalInput("amount", sender, e))
                => othersKept(vaultId)
        /\ (touched /\ lastCall'.op = "emergencyUnlock") =>
              \A vaultId \in VaultIds, sender \in Addresses :
                emergencyUnlock(sender, vaultId) => othersKept(vaultId)
        /\ (touched /\ lastCall'.op = "claimInheritance") =>
              \A vaultId \in VaultIds, sender \in Addresses, accepts \in BOOLEAN :
                claimInheritance(sender, vaultId, accepts) => othersKept(vaultId)
        /\ (touched /\ lastCall'.op = "createVault") =>
              \A sender \in Addresses, value \in Deposits,
                 firstUnlockTime \in FirstUnlockTimes,
                 unlockMode \in UnlockModes, beneficiaryCount \in SlotCounts :
                createVault(sender, value, firstUnlockTime, unlockMode, beneficiaryCount)
                => /\ \A w \in 1..vaultCount : vaults'[w] = vaults[w]
                   /\ beneficiaries' = beneficiaries ]_vars

\* C28 witness: of two vaults of one creator, one has just been emergency
\* unlocked and has a written slot while the other is untouched.
C28_Witness ==
    /\ vaultCount = 2
    /\ lastCall.op = "emergencyUnlock"
    /\ lastCall.err = OK
    /\ vaults[1].creator = vaults[2].creator
    /\ \E v, w \in 1..vaultCount :
          /\ vaults[v].emergencyUnlocked
          /\ beneficiaries[v][0] # ZeroBeneficiary
          /\ ~vaults[w].emergencyUnlocked
          /\ beneficiaries[w][0] = ZeroBeneficiary

\* C29: with any interleaving of initializeFHE calls and no failed
\* initialisation, the SDK initialisation is started exactly once and every
\* call resolves to the same instance; once fheInstance is set no later call
\* replaces it.
C29_SingleInitialisation ==
    /\ [] ( LET started == { k \in Attempts : attempt[k].pc # "unstarted" }
                failed == { k \in Attempts : attempt[k].pc = "rejected" }
                inFlight == { k \in Attempts :
                                attempt[k].pc \in { "awaitInitSDK", "awaitCreateInstance" } }
            IN  /\ Cardinality(inFlight) <= 1
                /\ failed = {} => Cardinality(started) <= 1
                /\ (failed = {} /\ \E c \in Callers : caller[c].pc # "idle")
                      => Cardinality(started) = 1
                /\ \A c \in Callers :
                      caller[c].pc = "resolved" =>
                          /\ fheInstance # 0
                          /\ caller[c].got = fheInstance
                /\ \A c, d \in Callers :
                      (caller[c].pc = "resolved" /\ caller[d].pc = "resolved")
                          => caller[c].got = caller[d].got )
    /\ [][ fheInstance # 0 => fheInstance' = fheInstance ]_<<vars, fheVars>>

\* C29 witness: two call sites shared the one pending initialisation, a third
\* called after it finished, and all three hold the same instance.
C29_Witness ==
    /\ \A k \in Attempts : attempt[k].pc # "rejected"
    /\ fheInstance = 1
    /\ \E c, d, e \in Callers :
          /\ c # d
          /\ caller[c] = [ pc |-> "resolved", on |-> 1, got |-> 1 ]
          /\ caller[d] = [ pc |-> "resolved", on |-> 1, got |-> 1 ]
          /\ caller[e] = [ pc |-> "resolved", on |-> 0, got |-> 1 ]

\* C30: when an initialisation fails, initPromise is reset to null and
\* fheInstance stays null, every call that shares the failed promise is
\* rejected, and the next initializeFHE call starts a fresh initialisation.
C30_FailedAttemptClearsLatch ==
    /\ [] ( /\ \A k \in Attempts :
                  attempt[k].pc = "rejected" =>
                      /\ initPromise # k
                      /\ fheInstance # k
                      /\ \A c \in Callers :
                            caller[c].on = k => caller[c].pc \in { "waiting", "rejected" }
            /\ \A c \in Callers :
                  caller[c].pc = "rejected" => attempt[caller[c].on].pc = "rejected" )
    /\ [][ \A k \in Attempts :
             (attempt[k].pc # "rejected" /\ attempt'[k].pc = "rejected")
                 => /\ initPromise' = 0
                    /\ fheInstance = 0
                    /\ fheInstance' = 0 ]_<<vars, fheVars>>
    /\ [][ \A c \in Callers :
             ( /\ initializeFHE(c)
               /\ fheInstance = 0
               /\ initPromise = 0
               /\ \E k \in Attempts : attempt[k].pc = "rejected" )
             => /\ attempt[caller'[c].on].pc = "unstarted"
                /\ attempt'[caller'[c].on].pc = "awaitInitSDK"
                /\ initPromise' = caller'[c].on
                /\ caller'[c].pc = "waiting" ]_<<vars, fheVars>>
    /\ \A c \in Callers :
          (caller[c].pc = "waiting" /\ attempt[caller[c].on].pc = "rejected")
              ~> (caller[c].pc = "rejected")

\* C30 witness: the first initialisation failed and rejected the call that
\* shared it; a later call started a second one, which gave the instance.
C30_Witness ==
    /\ attempt[1].pc = "rejected"
    /\ attempt[2].pc = "fulfilled"
    /\ initPromise = 2
    /\ fheInstance = 2
    /\ \E c, d \in Callers :
          /\ caller[c] = [ pc |-> "rejected", on |-> 1, got |-> 0 ]
          /\ caller[d] = [ pc |-> "resolved", on |-> 2, got |-> 2 ]

====
